---- MODULE Spec2Model ----
(***************************************************************************)
(* go-bank-api: the HTTP request pipeline (router, JWT middleware, error   *)
(* adapter, handlers) over the PostgresStore storage gateway.              *)
(*                                                                         *)
(* The accounts table is the only shared state.  Every request is served   *)
(* by its own goroutine; a handler issues at most one SQL statement, so a  *)
(* handler is atomic up to that statement.  handleCreateAccount is the     *)
(* only handler with work on both sides of its statement (NewAccount       *)
(* before the INSERT, createJWT and the 201 after it), so it is modelled   *)
(* in three steps that interleave with all other requests.                 *)
(***************************************************************************)
EXTENDS Integers, Sequences, FiniteSets, TLC

VARIABLES
    rows,     \* the accounts table, in storage order
    nextId,   \* next value of the SERIAL sequence behind accounts.id
    clock,    \* time.Now() of the latest NewAccount, in TIMESTAMP ticks
    conns,    \* per connection: the POST /account request in flight, if any
    last,     \* the most recently completed request and its response
    posted,   \* POST /account requests that reached NewAccount
    insFail,  \* of those, the ones whose INSERT returned an error
    raced     \* an INSERT committed while another create was in flight

vars == <<rows, nextId, clock, conns, last, posted, insFail, raced>>

(***************************************************************************)
(* Bounds of the model.                                                    *)
(***************************************************************************)
\* POST /account requests that may reach NewAccount in one behaviour
MaxCreates == 2
\* connections served concurrently
MaxConns == 2
\* rand.Intn(1000000) scaled down: account numbers are 0 .. NumberRange-1
NumberRange == 2

Conns == 1..MaxConns

(***************************************************************************)
(* Go errors: nil, or an error value carrying its Error() text.            *)
(***************************************************************************)
NilErr == [nil |-> TRUE, msg |-> ""]
Errorf(msg) == [nil |-> FALSE, msg |-> msg]

(***************************************************************************)
(* JSON values of request bodies.  A body is either not decodable at all   *)
(* (empty, truncated, not an object) or an object: a function from the     *)
(* keys that are present to a string or a number.                          *)
(***************************************************************************)
JStr(s) == [t |-> "string", s |-> s, n |-> 0]
JNum(n) == [t |-> "number", s |-> "", n |-> n]

Malformed == [json |-> FALSE, obj |-> <<>>]
Object(f) == [json |-> TRUE, obj |-> f]
EmptyFn == [k \in {} |-> JStr("")]

\* encoding/json into a string field: absent key keeps the zero value,
\* a non-string value is an UnmarshalTypeError
DecodeString(obj, key) ==
    IF key \notin DOMAIN obj THEN [err |-> NilErr, v |-> ""]
    ELSE IF obj[key].t # "string"
         THEN [err |-> Errorf("json: cannot unmarshal " \o obj[key].t
                              \o " into Go struct field ." \o key
                              \o " of type string"),
               v |-> ""]
         ELSE [err |-> NilErr, v |-> obj[key].s]

\* encoding/json into an int field
DecodeInt(obj, key) ==
    IF key \notin DOMAIN obj THEN [err |-> NilErr, v |-> 0]
    ELSE IF obj[key].t # "number"
         THEN [err |-> Errorf("json: cannot unmarshal " \o obj[key].t
                              \o " into Go struct field ." \o key
                              \o " of type int64"),
               v |-> 0]
         ELSE [err |-> NilErr, v |-> obj[key].n]

FirstErr(e1, e2) == IF ~e1.nil THEN e1 ELSE e2

\* json.NewDecoder(r.Body).Decode(new(CreateAccountRequest))
DecodeCreateAccountRequest(body) ==
    IF ~body.json
    THEN [err |-> Errorf("unexpected EOF"), FirstName |-> "", LastName |-> ""]
    ELSE LET f == DecodeString(body.obj, "first_name")
             l == DecodeString(body.obj, "last_name")
         IN  [err |-> FirstErr(f.err, l.err), FirstName |-> f.v, LastName |-> l.v]

\* json.NewDecoder(r.Body).Decode(new(TransferRequest))
DecodeTransferRequest(body) ==
    IF ~body.json
    THEN [err |-> Errorf("unexpected EOF"), ToAccount |-> 0, Amount |-> 0]
    ELSE LET t == DecodeInt(body.obj, "to_account")
             a == DecodeInt(body.obj, "amount")
         IN  [err |-> FirstErr(t.err, a.err), ToAccount |-> t.v, Amount |-> a.v]

(***************************************************************************)
(* JSON encodings of the values the handlers write.                        *)
(***************************************************************************)
JsonNull == [kind |-> "null"]
JsonString(s) == [kind |-> "string", s |-> s]

\* Account (types): every field is encoded, none is omitempty
JsonAccount(a) ==
    [kind |-> "object", id |-> a.ID, first_name |-> a.FirstName,
     last_name |-> a.LastName, number |-> a.Number, balance |-> a.Balance,
     created_at |-> a.CreatedAt]

RECURSIVE JsonAccounts(_)
JsonAccounts(as) ==
    IF as = <<>> THEN <<>>
    ELSE <<JsonAccount(Head(as))>> \o JsonAccounts(Tail(as))

\* []*Account: a non-nil slice encodes as an array, [] when empty
JsonArray(as) == [kind |-> "array", items |-> JsonAccounts(as)]

\* TransferRequest
JsonTransfer(t) ==
    [kind |-> "object", to_account |-> t.ToAccount, amount |-> t.Amount]

\* APIError{Error: msg}: Code is never set and is encoded as its zero value
APIError(msg) == [kind |-> "object", error |-> msg, code |-> 0]

\* writeJSON: WriteHeader(status), then the encoded value
writeJSON(status, v) == [status |-> status, body |-> v]

(***************************************************************************)
(* Path ids.  An id is the text of the {id} path segment, kept as its      *)
(* characters so that strconv.Atoi can be computed on it.                  *)
(***************************************************************************)
Digits == {"0", "1", "2", "3", "4", "5", "6", "7", "8", "9"}

DigitVal(c) ==
    CASE c = "0" -> 0 [] c = "1" -> 1 [] c = "2" -> 2 [] c = "3" -> 3
      [] c = "4" -> 4 [] c = "5" -> 5 [] c = "6" -> 6 [] c = "7" -> 7
      [] c = "8" -> 8 [] c = "9" -> 9

RECURSIVE Text(_)
Text(cs) == IF cs = <<>> THEN "" ELSE Head(cs) \o Text(Tail(cs))

RECURSIVE DigitsVal(_, _)
DigitsVal(cs, acc) ==
    IF cs = <<>> THEN acc ELSE DigitsVal(Tail(cs), acc * 10 + DigitVal(Head(cs)))

\* strconv.Atoi: an optional sign, then one or more decimal digits
Atoi(cs) ==
    LET signed == cs # <<>> /\ Head(cs) \in {"+", "-"}
        ds     == IF signed THEN Tail(cs) ELSE cs
        ok     == ds # <<>> /\ \A i \in 1..Len(ds) : ds[i] \in Digits
        mag    == IF ok THEN DigitsVal(ds, 0) ELSE 0
    IN  [ok |-> ok,
         v  |-> IF signed /\ Head(cs) = "-" THEN 0 - mag ELSE mag]

\* getID
getID(r) ==
    LET a == Atoi(r.id)
    IN  IF ~a.ok
        THEN [id |-> a.v, err |-> Errorf("invalid id given " \o Text(r.id))]
        ELSE [id |-> a.v, err |-> NilErr]

(***************************************************************************)
(* Tokens of the x-jwt-token header, by what jwt.Parse looks at: the number *)
(* of dot-separated segments, the alg header, whether the signature        *)
(* verifies under JWT_SECRET, and whether a registered exp claim is past.  *)
(***************************************************************************)
Token(segments, alg, signed, expired) ==
    [segments |-> segments, alg |-> alg, signed |-> signed, expired |-> expired]

NoToken      == Token(0, "", FALSE, FALSE)        \* header absent: ""
ForgedToken  == Token(3, "HS256", FALSE, FALSE)   \* signed with another key
RsaToken     == Token(3, "RS256", TRUE, FALSE)
ExpiredToken == Token(3, "HS256", TRUE, TRUE)
\* what createJWT issues: HS256 under JWT_SECRET, with an "expiresAt" claim
\* that is not the registered exp claim
IssuedToken  == Token(3, "HS256", TRUE, FALSE)

HMACAlgs == {"HS256", "HS384", "HS512"}

\* validateJWT without the signature check, as with jwt.ParseUnverified
validateJWTUnverified(tok) ==
    IF tok.segments # 3 THEN Errorf("token is malformed")
    ELSE IF tok.alg \notin HMACAlgs
         THEN Errorf("unexpected signing method: " \o tok.alg)
    ELSE IF tok.expired THEN Errorf("token is expired")
    ELSE NilErr

\* validateJWT: jwt.Parse with the key function that accepts HMAC only
validateJWT(tok) ==
    IF tok.segments # 3 THEN Errorf("token is malformed")
    ELSE IF tok.alg \notin HMACAlgs
         THEN Errorf("unexpected signing method: " \o tok.alg)
    ELSE IF ~tok.signed THEN Errorf("signature is invalid")
    ELSE IF tok.expired THEN Errorf("token is expired")
    ELSE NilErr

\* createJWT: sign {expiresAt, accountNumber} with HS256; the library's
\* SignedString result is passed through
createJWT(account, signOk) ==
    IF signOk THEN [token |-> IssuedToken, err |-> NilErr]
    ELSE [token |-> NoToken, err |-> Errorf("jwt: signing failed")]

(***************************************************************************)
(* Account entity.                                                         *)
(***************************************************************************)
\* NewAccount with the two names taken in the wrong order
NewAccountSwapped(FirstName, LastName, number, now) ==
    [ID |-> 0, FirstName |-> LastName, LastName |-> FirstName,
     Number |-> number, Balance |-> 0, CreatedAt |-> now]

\* NewAccount: ID and Balance keep their zero values
NewAccount(FirstName, LastName, number, now) ==
    [ID |-> 0, FirstName |-> FirstName, LastName |-> LastName,
     Number |-> number, Balance |-> 0, CreatedAt |-> now]

(***************************************************************************)
(* PostgresStore.  db is [rows, nextId]; a statement either runs or the    *)
(* driver returns an error (fault).                                        *)
(***************************************************************************)
PqError == Errorf("pq: connection refused")

\* CreateAccount with the number column unique and ON CONFLICT DO NOTHING:
\* a second account with a number already present is dropped silently
PgCreateAccountUniqueNumber(db, account, fault) ==
    IF fault
    THEN [db |-> db, err |-> PqError, account |-> account]
    ELSE IF \E i \in 1..Len(db.rows) : db.rows[i].number = account.Number
         THEN [db |-> [rows |-> db.rows, nextId |-> db.nextId + 1],
               err |-> NilErr, account |-> account]
    ELSE [db |-> [rows |-> Append(db.rows,
                                  [id |-> db.nextId,
                                   first_name |-> account.FirstName,
                                   last_name |-> account.LastName,
                                   number |-> account.Number,
                                   balance |-> account.Balance,
                                   created_at |-> account.CreatedAt]),
                  nextId |-> db.nextId + 1],
          err |-> NilErr,
          account |-> account]

\* CreateAccount with RETURNING id scanned into account.ID
PgCreateAccountReturningID(db, account, fault) ==
    IF fault
    THEN [db |-> db, err |-> PqError, account |-> account]
    ELSE [db |-> [rows |-> Append(db.rows,
                                  [id |-> db.nextId,
                                   first_name |-> account.FirstName,
                                   last_name |-> account.LastName,
                                   number |-> account.Number,
                                   balance |-> account.Balance,
                                   created_at |-> account.CreatedAt]),
                  nextId |-> db.nextId + 1],
          err |-> NilErr,
          account |-> [account EXCEPT !.ID = db.nextId]]

\* CreateAccount whose error comes after the row was written (an error
\* of reading the statement's result, not of running it)
PgCreateAccountErrAfterInsert(db, account, fault) ==
    [db |-> [rows |-> Append(db.rows,
                             [id |-> db.nextId,
                              first_name |-> account.FirstName,
                              last_name |-> account.LastName,
                              number |-> account.Number,
                              balance |-> account.Balance,
                              created_at |-> account.CreatedAt]),
             nextId |-> db.nextId + 1],
     err |-> IF fault THEN PqError ELSE NilErr,
     account |-> account]

\* CreateAccount: INSERT of every column but id, which the SERIAL default
\* fills in; the account passed in is only read
PgCreateAccount(db, account, fault) ==
    IF fault
    THEN [db |-> db, err |-> PqError, account |-> account]
    ELSE [db |-> [rows |-> Append(db.rows,
                                  [id |-> db.nextId,
                                   first_name |-> account.FirstName,
                                   last_name |-> account.LastName,
                                   number |-> account.Number,
                                   balance |-> account.Balance,
                                   created_at |-> account.CreatedAt]),
                  nextId |-> db.nextId + 1],
          err |-> NilErr,
          account |-> account]

\* rows.Scan into a new Account
ScanAccount(row) ==
    [ID |-> row.id, FirstName |-> row.first_name, LastName |-> row.last_name,
     Number |-> row.number, Balance |-> row.balance, CreatedAt |-> row.created_at]

RECURSIVE ScanAccounts(_)
ScanAccounts(rs) ==
    IF rs = <<>> THEN <<>>
    ELSE <<ScanAccount(Head(rs))>> \o ScanAccounts(Tail(rs))

\* GetAccounts with the slice declared and not made (var accounts
\* []*Account): nil, hence null, when no row is appended
PgGetAccountsNilSlice(db, fault, n) ==
    CASE fault = "query" -> [nil |-> TRUE, accounts |-> <<>>, err |-> PqError]
      [] fault = "scan"  -> [nil |-> TRUE, accounts |-> <<>>,
                             err |-> Errorf("sql: Scan error")]
      [] OTHER -> [nil |-> n = 0,
                   accounts |-> ScanAccounts(SubSeq(db.rows, 1, n)),
                   err |-> NilErr]

\* GetAccounts: SELECT * FROM accounts, then the rows.Next() loop.
\* fault "query": db.Query fails.  Otherwise n rows are iterated and then
\* "none": the result set is exhausted (n is the row count);
\* "scan": Scan of row n+1 fails; "stream": rows.Next() ends early on a
\* driver error, which is never looked at (no rows.Err() call).
PgGetAccounts(db, fault, n) ==
    CASE fault = "query" -> [nil |-> TRUE, accounts |-> <<>>, err |-> PqError]
      [] fault = "scan"  -> [nil |-> TRUE, accounts |-> <<>>,
                             err |-> Errorf("sql: Scan error")]
      [] OTHER -> [nil |-> FALSE,
                   accounts |-> ScanAccounts(SubSeq(db.rows, 1, n)),
                   err |-> NilErr]

\* GetAccountByID: return nil, nil
PgGetAccountByID(db, id) ==
    [nil |-> TRUE, account |-> NewAccount("", "", 0, 0), err |-> NilErr]

\* UpdateAccount: return nil
PgUpdateAccount(db, account) == [db |-> db, err |-> NilErr]

\* DeleteAccount that runs DELETE FROM accounts WHERE id = $1
PgDeleteAccountDeletes(db, id) ==
    [db |-> [rows |-> SelectSeq(db.rows, LAMBDA row : row.id # id),
             nextId |-> db.nextId],
     err |-> NilErr]

\* DeleteAccount: return nil
PgDeleteAccount(db, id) == [db |-> db, err |-> NilErr]

(***************************************************************************)
(* Handlers.  A handler's result is the response it wrote (NoResp when it  *)
(* wrote none), the error it returned, the database after it, and the      *)
(* calls it made (tr).                                                     *)
(***************************************************************************)
NoResp == [status |-> 0, body |-> JsonNull]

Result(resp, err, db, tr) == [resp |-> resp, err |-> err, db |-> db, tr |-> tr]

\* handleGetAccounts
handleGetAccounts(db, r, fault, n) ==
    LET g == PgGetAccounts(db, fault, n)
    IN  IF ~g.err.nil
        THEN Result(NoResp, g.err, db, {"store.GetAccounts"})
        ELSE Result(writeJSON(200, IF g.nil THEN JsonNull ELSE JsonArray(g.accounts)),
                    NilErr, db, {"store.GetAccounts"})

\* handleGetAccountByID
handleGetAccountByID(db, r) ==
    LET i == getID(r)
        g == PgGetAccountByID(db, i.id)
    IN  IF ~i.err.nil THEN Result(NoResp, i.err, db, {"getID"})
        ELSE IF ~g.err.nil
             THEN Result(NoResp, g.err, db, {"getID", "store.GetAccountByID"})
        ELSE Result(writeJSON(200, IF g.nil THEN JsonNull ELSE JsonAccount(g.account)),
                    NilErr, db, {"getID", "store.GetAccountByID"})

\* handleDeleteAccountByID
handleDeleteAccountByID(db, r) ==
    LET i == getID(r)
        d == PgDeleteAccount(db, i.id)
    IN  IF ~i.err.nil THEN Result(NoResp, i.err, db, {"getID"})
        ELSE IF ~d.err.nil
             THEN Result(NoResp, d.err, d.db, {"getID", "store.DeleteAccount"})
        ELSE Result(writeJSON(200, JsonString("successfully deleted account")),
                    NilErr, d.db, {"getID", "store.DeleteAccount"})

\* handleTransfer that looks the destination account up first
handleTransferChecksAccount(db, r) ==
    LET t == DecodeTransferRequest(r.body)
    IN  IF ~t.err.nil
        THEN Result(NoResp, Errorf("bad Request: " \o t.err.msg), db, {"decode"})
        ELSE IF ~\E i \in 1..Len(db.rows) : db.rows[i].id = t.ToAccount
             THEN Result(NoResp, Errorf("account not found"), db, {"decode"})
        ELSE Result(writeJSON(200, JsonTransfer(t)), NilErr, db, {"decode"})

\* handleTransfer that credits the amount to the destination account
handleTransferApplies(db, r) ==
    LET t == DecodeTransferRequest(r.body)
        credited == [i \in 1..Len(db.rows) |->
                        IF db.rows[i].id = t.ToAccount
                        THEN [db.rows[i] EXCEPT !.balance = @ + t.Amount]
                        ELSE db.rows[i]]
    IN  IF ~t.err.nil
        THEN Result(NoResp, Errorf("bad Request: " \o t.err.msg), db, {"decode"})
        ELSE Result(writeJSON(200, JsonTransfer(t)), NilErr,
                    [db EXCEPT !.rows = credited], {"decode"})

\* handleTransfer
handleTransfer(db, r) ==
    LET t == DecodeTransferRequest(r.body)
    IN  IF ~t.err.nil
        THEN Result(NoResp, Errorf("bad Request: " \o t.err.msg), db, {"decode"})
        ELSE Result(writeJSON(200, JsonTransfer(t)), NilErr, db, {"decode"})

MethodNotAllowed(r) == Errorf("method not allowed: " \o r.method)

\* handleAccount, for every request but a POST: GET lists, the rest is the
\* default case (POST is handleCreateAccount, below)
handleAccount(db, r, fault, n) ==
    LET h == IF r.method = "GET" THEN handleGetAccounts(db, r, fault, n)
             ELSE Result(NoResp, MethodNotAllowed(r), db, {})
    IN  [h EXCEPT !.tr = @ \cup {"handleAccount"}]

\* handleAccountByID
handleAccountByID(db, r) ==
    LET h == CASE r.method = "GET"    -> handleGetAccountByID(db, r)
               [] r.method = "DELETE" -> handleDeleteAccountByID(db, r)
               [] OTHER -> Result(NoResp, MethodNotAllowed(r), db, {})
    IN  [h EXCEPT !.tr = @ \cup {"handleAccountByID"}]

\* makeHTTPHandlerFunc that reports a returned error as a server error
makeHTTPHandlerFunc500(h) ==
    IF ~h.err.nil
    THEN [h EXCEPT !.resp = writeJSON(500, APIError(h.err.msg))]
    ELSE h

\* makeHTTPHandlerFunc: a returned error becomes a 400 with an APIError body
makeHTTPHandlerFunc(h) ==
    IF ~h.err.nil
    THEN [h EXCEPT !.resp = writeJSON(400, APIError(h.err.msg))]
    ELSE h

\* withJWTAuth: h is the wrapped handler's result, used only when the
\* token of the request validates
withJWTAuth(db, r, h) ==
    IF ~validateJWT(r.token).nil
    THEN Result(writeJSON(403, APIError("invalid token")), NilErr, db, {})
    ELSE h

(***************************************************************************)
(* handleCreateAccount, in the three parts its INSERT separates.           *)
(***************************************************************************)
\* decode the body, then NewAccount
createAccountBegin(r, number, now) ==
    LET q == DecodeCreateAccountRequest(r.body)
    IN  [err |-> q.err,
         account |-> NewAccount(q.FirstName, q.LastName, number, now)]

\* s.store.CreateAccount(account)
createAccountStore(db, account, fault) == PgCreateAccount(db, account, fault)

\* createJWT, then the 201 with the account
createAccountFinish(db, account, signOk) ==
    LET j == createJWT(account, signOk)
        tr == {"handleAccount", "decode", "NewAccount", "store.CreateAccount",
               "createJWT"}
    IN  IF ~j.err.nil THEN Result(NoResp, j.err, db, tr)
        ELSE Result(writeJSON(201, JsonAccount(account)), NilErr, db, tr)

(***************************************************************************)
(* Requests the clients send: [path, method, id, token, body].  The parts  *)
(* a route never reads are left at their empty values.                     *)
(***************************************************************************)
Request(path, method, id, token, body) ==
    [path |-> path, method |-> method, id |-> id, token |-> token, body |-> body]

NoReq == Request("", "", <<>>, NoToken, Malformed)

Names(first, last_) ==
    Object([k \in {"first_name", "last_name"} |->
               IF k = "first_name" THEN JStr(first) ELSE JStr(last_)])

CreateBodies ==
    { Malformed,
      Names("a", "b"),
      Names("", ""),
      Object([k \in {"first_name"} |-> JNum(5)]) }

Transfer(to, amount) ==
    Object([k \in {"to_account", "amount"} |->
               IF k = "to_account" THEN JNum(to) ELSE JNum(amount)])

TransferBodies ==
    { Malformed,
      Transfer(5, 100),
      Transfer(1, 0 - 100),
      Object(EmptyFn),
      Object([k \in {"amount"} |-> JStr("x")]) }

IdStrs == { <<"1">>, <<"7">>, <<"-", "1">>, <<"1", "x">> }

Tokens == {NoToken, ForgedToken, RsaToken, ExpiredToken, IssuedToken}

AccountRequests ==
    { Request("/account", m, <<>>, NoToken, Malformed) : m \in {"GET", "DELETE", "PUT"} }

CreateRequests ==
    { Request("/account", "POST", <<>>, NoToken, b) : b \in CreateBodies }

ByIDRequests ==
    { Request("/account/{id}", m, i, t, Malformed) :
          m \in {"GET", "DELETE", "PUT"}, i \in IdStrs, t \in Tokens }

TransferRequests ==
    { Request("/transfer", m, <<>>, NoToken, b) :
          m \in {"POST", "GET"}, b \in TransferBodies }

(***************************************************************************)
(* State.                                                                  *)
(***************************************************************************)
IdleConn ==
    [pc |-> "idle", req |-> NoReq, account |-> NewAccount("", "", 0, 0),
     persisted |-> FALSE]

\* what is kept of a completed request: the request, the response, the
\* error the route handler returned, the calls made, the fault met ("none",
\* or "query", "scan", "stream", "insert", "sign"), and whether the request
\* added a row
Completed(r, h, fault, persisted) ==
    [req |-> r, resp |-> h.resp, err |-> h.err, tr |-> h.tr,
     fault |-> fault, persisted |-> persisted]

\* nothing completed, or the last response has been read
NoLast == Completed(NoReq, Result(NoResp, NilErr, <<>>, {}), "none", FALSE)

\* NewPostgresStore, Init (CREATE TABLE IF NOT EXISTS on a fresh database),
\* NewAPIServer: an empty table whose SERIAL sequence starts at 1
Init ==
    /\ rows = <<>>
    /\ nextId = 1
    /\ clock = 0
    /\ conns = [c \in Conns |-> IdleConn]
    /\ last = NoLast
    /\ posted = 0
    /\ insFail = 0
    /\ raced = FALSE

DB == [rows |-> rows, nextId |-> nextId]

InFlight == {c \in Conns : conns[c].pc # "idle"}

\* Run: the three routes
RouteAccount(db, r, fault, n) == makeHTTPHandlerFunc(handleAccount(db, r, fault, n))
RouteAccountByID(db, r) ==
    withJWTAuth(db, r, makeHTTPHandlerFunc(handleAccountByID(db, r)))
RouteTransfer(db, r) == makeHTTPHandlerFunc(handleTransfer(db, r))

\* the outcomes of one run of the GetAccounts loop over the current table
ReadOutcomes ==
    {<<"none", Len(rows)>>, <<"query", 0>>}
    \cup {<<f, n>> : f \in {"scan", "stream"}, n \in 0..(Len(rows) - 1)}

\* GET, DELETE, PUT /account
ServeAccount ==
    /\ last = NoLast
    /\ \E r \in AccountRequests :
       \E o \in IF r.method = "GET" THEN ReadOutcomes ELSE {<<"none", Len(rows)>>} :
        LET h == RouteAccount(DB, r, o[1], o[2])
        IN  /\ rows' = h.db.rows
            /\ nextId' = h.db.nextId
            /\ last' = Completed(r, h, o[1], FALSE)
            /\ UNCHANGED <<clock, conns, posted, insFail, raced>>

\* any method on /account/{id}
ServeAccountByID ==
    /\ last = NoLast
    /\ \E r \in ByIDRequests :
        LET h == RouteAccountByID(DB, r)
        IN  /\ rows' = h.db.rows
            /\ nextId' = h.db.nextId
            /\ last' = Completed(r, h, "none", FALSE)
            /\ UNCHANGED <<clock, conns, posted, insFail, raced>>

\* any method on /transfer
ServeTransfer ==
    /\ last = NoLast
    /\ \E r \in TransferRequests :
        LET h == RouteTransfer(DB, r)
        IN  /\ rows' = h.db.rows
            /\ nextId' = h.db.nextId
            /\ last' = Completed(r, h, "none", FALSE)
            /\ UNCHANGED <<clock, conns, posted, insFail, raced>>

\* POST /account whose body does not decode: handleCreateAccount returns
\* the decoder's error before NewAccount
CreateRejected ==
    /\ last = NoLast
    /\ \E r \in CreateRequests :
        LET b == createAccountBegin(r, 0, clock)
            h == makeHTTPHandlerFunc(
                     Result(NoResp, b.err, DB, {"handleAccount", "decode"}))
        IN  /\ ~b.err.nil
            /\ last' = Completed(r, h, "none", FALSE)
            /\ UNCHANGED <<rows, nextId, clock, conns, posted, insFail, raced>>

\* POST /account up to the INSERT: decode, NewAccount (rand.Intn, time.Now)
CreateBegin(c) ==
    /\ last = NoLast
    /\ posted < MaxCreates
    /\ conns[c].pc = "idle"
    /\ \A d \in Conns : d < c => conns[d].pc # "idle"
    /\ \E r \in CreateRequests, number \in 0..(NumberRange - 1) :
         LET now == clock + 1
             b == createAccountBegin(r, number, now)
         IN  /\ b.err.nil
             /\ conns' = [conns EXCEPT
                            ![c] = [pc |-> "insert", req |-> r, account |-> b.account,
                                    persisted |-> FALSE]]
             /\ clock' = now
             /\ posted' = posted + 1
             /\ UNCHANGED <<rows, nextId, last, insFail, raced>>

\* the INSERT of a create in flight; an error ends the request with a 400
CreateInsert(c) ==
    /\ last = NoLast
    /\ conns[c].pc = "insert"
    /\ \E fault \in BOOLEAN :
         LET s == createAccountStore(DB, conns[c].account, fault)
             h == makeHTTPHandlerFunc(
                      Result(NoResp, s.err, s.db,
                             {"handleAccount", "decode", "NewAccount",
                              "store.CreateAccount"}))
         IN  /\ rows' = s.db.rows
             /\ nextId' = s.db.nextId
             /\ IF ~s.err.nil
                THEN /\ conns' = [conns EXCEPT ![c] = IdleConn]
                     /\ last' = Completed(conns[c].req, h,
                                          "insert", rows' # rows)
                     /\ insFail' = insFail + 1
                     /\ UNCHANGED raced
                ELSE /\ conns' = [conns EXCEPT ![c].pc = "token",
                                               ![c].account = s.account,
                                               ![c].persisted = (rows' # rows)]
                     /\ raced' = (raced \/ InFlight # {c})
                     /\ UNCHANGED <<last, insFail>>
             /\ UNCHANGED <<clock, posted>>

\* createJWT and the response of a create whose INSERT returned nil
CreateFinish(c) ==
    /\ last = NoLast
    /\ conns[c].pc = "token"
    /\ \E signOk \in BOOLEAN :
         LET h == makeHTTPHandlerFunc(
                      createAccountFinish(DB, conns[c].account, signOk))
         IN  /\ last' = Completed(conns[c].req, h,
                                  IF signOk THEN "none" ELSE "sign",
                                  conns[c].persisted)
             /\ conns' = [conns EXCEPT ![c] = IdleConn]
             /\ UNCHANGED <<rows, nextId, clock, posted, insFail, raced>>

\* the client takes the response; last holds one response at a time, so
\* the server's next step is recorded after this one is read
ClientReads ==
    /\ last # NoLast
    /\ last' = NoLast
    /\ UNCHANGED <<rows, nextId, clock, conns, posted, insFail, raced>>

Next ==
    \/ ClientReads
    \/ ServeAccount
    \/ ServeAccountByID
    \/ ServeTransfer
    \/ CreateRejected
    \/ \E c \in Conns : CreateBegin(c)
    \/ \E c \in Conns : CreateInsert(c)
    \/ \E c \in Conns : CreateFinish(c)

Spec == Init /\ [][Next]_vars

(***************************************************************************)
(* Properties.  last is the response of the step just taken: every server  *)
(* step waits for ClientReads, so rows is the table as that request left   *)
(* it, and the step that served a request is the one from last = NoLast to *)
(* last' holding that request.                                             *)
(***************************************************************************)
IsCreate(l) == l.req.path = "/account" /\ l.req.method = "POST"

\* the body is a JSON object with string first_name and last_name
HasNames(body) ==
    /\ body.json
    /\ {"first_name", "last_name"} \subseteq DOMAIN body.obj
    /\ body.obj["first_name"].t = "string"
    /\ body.obj["last_name"].t = "string"

Created(l) ==
    /\ l.resp.status = 201
    /\ l.resp.body.kind = "object"
    /\ l.resp.body.first_name = l.req.body.obj["first_name"].s
    /\ l.resp.body.last_name = l.req.body.obj["last_name"].s
    /\ l.resp.body.balance = 0

IsByID(l) == l.req.path = "/account/{id}"

\* C2 as stated: a request to /account/{id} whose token is missing or does
\* not verify gets 403 with body {"error":"invalid token"}, and nothing
\* downstream runs: no dispatch, no id parsing, no storage call, no 400.
C2_InvalidTokenForbidden ==
    (IsByID(last) /\ last.req.token # IssuedToken)
    => /\ last.resp.status = 403
       /\ last.resp.body = [kind |-> "object", error |-> "invalid token"]
       /\ last.tr = {}
       /\ last.err.nil

\* C2 amended: such a request gets 403 with body
\* {"error":"invalid token","code":0}, and nothing downstream runs: no
\* dispatch, no id parsing, no storage call, no 400.
C2_InvalidTokenForbiddenWithCode ==
    (IsByID(last) /\ last.req.token # IssuedToken)
    => /\ last.resp.status = 403
       /\ last.resp.body = [kind |-> "object", error |-> "invalid token", code |-> 0]
       /\ last.tr = {}
       /\ last.err.nil

C2_Witness ==
    /\ IsByID(last)
    /\ last.req.method = "DELETE"
    /\ last.req.token = ForgedToken
    /\ last.req.id = <<"1", "x">>
    /\ last.resp.status = 403
    /\ Len(rows) > 0

IsList(l) == l.req.path = "/account" /\ l.req.method = "GET"

C4_ConcurrentCreatesAllPersist ==
    (InFlight = {} /\ insFail = 0) => Len(rows) = posted

C4_Witness ==
    /\ InFlight = {}
    /\ insFail = 0
    /\ raced
    /\ posted = 2
    /\ Len(rows) = 2
    /\ rows[1].number = rows[2].number

IsTransfer(l) == l.req.path = "/transfer"

\* the body is a JSON object whose to_account and amount, where present,
\* are numbers
HasTransfer(body) ==
    /\ body.json
    /\ \A k \in DOMAIN body.obj \cap {"to_account", "amount"} :
           body.obj[k].t = "number"

\* the value of a key of the body, 0 when the key is absent
NumberOf(body, k) == IF k \in DOMAIN body.obj THEN body.obj[k].n ELSE 0

\* C5: a /transfer request whose body decodes as {to_account, amount} is
\* answered 200 with the same to_account and amount, whether or not the
\* account exists and whatever the amount, and the step leaves the table,
\* every balance included, as it was.
C5_TransferEchoes ==
    [][(last = NoLast /\ IsTransfer(last') /\ HasTransfer(last'.req.body))
       => /\ last'.resp.status = 200
          /\ last'.resp.body =
                [kind |-> "object",
                 to_account |-> NumberOf(last'.req.body, "to_account"),
                 amount |-> NumberOf(last'.req.body, "amount")]
          /\ last'.err.nil
          /\ rows' = rows]_vars

C5_Witness ==
    /\ IsTransfer(last)
    /\ last.req.body = Transfer(5, 100)
    /\ last.resp.status = 200
    /\ last.resp.body.to_account = 5
    /\ last.resp.body.amount = 100
    /\ Len(rows) > 0
    /\ \A i \in 1..Len(rows) : rows[i].id # 5 /\ rows[i].balance = 0

\* C6: with a valid token and a numeric id, DELETE /account/{id} is
\* answered 200 "successfully deleted account" and GET /account/{id} 200
\* null, whether or not a row has that id, and the step leaves the table as
\* it was.
C6_ByIDSucceedsWithoutEffect ==
    [][(last = NoLast /\ IsByID(last') /\ last'.req.token = IssuedToken
           /\ Atoi(last'.req.id).ok)
       => /\ rows' = rows
          /\ last'.req.method = "DELETE" =>
                /\ last'.resp.status = 200
                /\ last'.resp.body = JsonString("successfully deleted account")
          /\ last'.req.method = "GET" =>
                /\ last'.resp.status = 200
                /\ last'.resp.body = JsonNull]_vars

C6_Witness ==
    /\ IsByID(last)
    /\ last.req.method = "DELETE"
    /\ last.req.token = IssuedToken
    /\ last.req.id = <<"1">>
    /\ last.resp.status = 200
    /\ \E i \in 1..Len(rows) : rows[i].id = 1

\* C7: whenever a route handler returns an error (undecodable body,
\* unsupported method, non-numeric id, storage error) the response is a 400
\* whose error field is that error's message; no handler error gives
\* another status.
C7_HandlerErrorIs400 ==
    ~last.err.nil
    => /\ last.resp.status = 400
       /\ last.resp.body.kind = "object"
       /\ last.resp.body.error = last.err.msg

C7_Witness ==
    /\ IsList(last)
    /\ last.fault = "query"
    /\ last.err = PqError
    /\ last.resp.status = 400
    /\ last.resp.body.error = "pq: connection refused"

\* C8: no step changes a persisted row, every persisted row has balance 0,
\* and a row that appears holds the names, number and creation time of the
\* account whose INSERT added it.
C8_RowsNeverMutated ==
    [][/\ \A i \in 1..Len(rows) : i <= Len(rows') /\ rows'[i] = rows[i]
       /\ \A i \in 1..Len(rows') : rows'[i].balance = 0
       /\ \A i \in (Len(rows) + 1)..Len(rows') :
            \E c \in Conns :
               /\ conns[c].pc = "insert"
               /\ rows'[i].first_name = conns[c].account.FirstName
               /\ rows'[i].last_name = conns[c].account.LastName
               /\ rows'[i].number = conns[c].account.Number
               /\ rows'[i].created_at = conns[c].account.CreatedAt]_vars

C8_Witness ==
    /\ IsTransfer(last)
    /\ last.req.body = Transfer(1, 0 - 100)
    /\ last.resp.status = 200
    /\ Len(rows) = 2
    /\ rows[1].id = 1
    /\ rows[1].first_name = "a"
    /\ rows[1].balance = 0

\* C9: the account returned in every 201 of POST /account has id 0, while
\* the persisted rows carry database-assigned ids, none of them 0 and no
\* two alike.
C9_CreateDoesNotReturnId ==
    /\ (IsCreate(last) /\ last.resp.status = 201) => last.resp.body.id = 0
    /\ \A c \in Conns : conns[c].account.ID = 0
    /\ \A i \in 1..Len(rows) :
         /\ rows[i].id >= 1
         /\ \A j \in 1..Len(rows) : i # j => rows[i].id # rows[j].id

C9_Witness ==
    /\ IsCreate(last)
    /\ last.resp.status = 201
    /\ last.resp.body.id = 0
    /\ Len(rows) = 2
    /\ rows[1].id = 1
    /\ rows[2].id = 2

\* C10 as stated: a POST /account answered 400 added no row, whichever
\* step failed: a row is persisted only if the client receives 201.
C10_RejectedCreatePersistsNothing ==
    (IsCreate(last) /\ last.resp.status = 400) => ~last.persisted

\* C10 amended: a POST /account answered 400 because its body did not
\* decode or its INSERT failed added no row; one answered 400 because
\* token creation failed after the INSERT has added its row.
C10_RejectedCreatePersistsUnlessSignFails ==
    (IsCreate(last) /\ last.resp.status = 400)
    => (last.persisted <=> last.fault = "sign")

C10_Witness ==
    /\ IsCreate(last)
    /\ last.resp.status = 400
    /\ last.fault = "insert"
    /\ ~last.persisted
    /\ Len(rows) = 1

====
